---- MODULE Spec2Model ----
(***************************************************************************)
(* The hospital application: a relational store of Doctor, Patient,        *)
(* Surgery and Diagnosis records, the reference queries of                 *)
(* hospital/tests.py, the query functions of hospital.queries they are     *)
(* compared with, and the two HTTP views of hospital/views.py.             *)
(*                                                                         *)
(* A queryset is a bag of primary keys: pk |-> number of result rows for   *)
(* that record (a filter that spans a to-many relation joins, and yields   *)
(* one row per matching related record).  Row order is not modelled.       *)
(* Date-times are whole seconds.  Text is a sequence of characters.        *)
(***************************************************************************)
EXTENDS Integers, Sequences, FiniteSets, TLC

VARIABLES backend, doctors, patients, surgeries, diagnoses, last

vars == <<backend, doctors, patients, surgeries, diagnoses, last>>

store == <<doctors, patients, surgeries, diagnoses>>

\* The fixture holds at most MaxRows records in all.
MaxRows == 4

\* ------------------------------------------------------------------ values

None == <<>>

Some(v) == <<v>>

Backends == {"sqlite", "postgresql"}

LastNames == {"Bailey", "Shepherd"}

Specialities == {"CAR", "NEU"}

BirthYears == {1954, 1973}

txt_Surgery == <<"S", "u", "r", "g", "e", "r", "y">>

txt_surgery == <<"s", "u", "r", "g", "e", "r", "y">>

txt_a_surgery == <<"a", " ", "s", "u", "r", "g", "e", "r", "y">>

txt_SURGERY == <<"S", "U", "R", "G", "E", "R", "Y">>

txt_Biopsy == <<"B", "i", "o", "p", "s", "y">>

Procedures == {txt_Surgery, txt_a_surgery, txt_SURGERY, txt_Biopsy}

\* <<start_datetime, end_datetime>>, end_datetime >= start_datetime
Times == {<<0, 10800>>, <<0, 10801>>, <<3600, 14399>>, <<3600, 21600>>}

SurgeryFields == {"id", "procedure", "start_datetime", "end_datetime", "patient", "doctors"}

\* ------------------------------------------------------------------- text

UpperCase == <<"A", "B", "C", "D", "E", "F", "G", "H", "I", "J", "K", "L", "M",
               "N", "O", "P", "Q", "R", "S", "T", "U", "V", "W", "X", "Y", "Z">>

LowerCase == <<"a", "b", "c", "d", "e", "f", "g", "h", "i", "j", "k", "l", "m",
               "n", "o", "p", "q", "r", "s", "t", "u", "v", "w", "x", "y", "z">>

LowerChar(c) ==
    IF \E i \in DOMAIN UpperCase : UpperCase[i] = c
    THEN LowerCase[CHOOSE i \in DOMAIN UpperCase : UpperCase[i] = c]
    ELSE c

Lower(text) == [i \in DOMAIN text |-> LowerChar(text[i])]

Contains(text, pattern) ==
    \E i \in 1..(Len(text) - Len(pattern) + 1) :
        SubSeq(text, i, i + Len(pattern) - 1) = pattern

IContains(text, pattern) == Contains(Lower(text), Lower(pattern))

\* ---------------------------------------------------------- the ORM layer

RECURSIVE SumSet(_, _)
SumSet(f, S) ==
    IF S = {} THEN 0
    ELSE LET x == CHOOSE y \in S : TRUE IN f[x] + SumSet(f, S \ {x})

MinSet(S) == CHOOSE x \in S : \A y \in S : x <= y

MaxSet(S) == CHOOSE x \in S : \A y \in S : y <= x

\* A queryset from the number of result rows of each record.
Rows(n) == [pk \in {k \in DOMAIN n : n[k] > 0} |-> n[pk]]

objects_all(table) == [pk \in DOMAIN table |-> 1]

distinct(qs) == [pk \in DOMAIN qs |-> 1]

count(qs) == SumSet(qs, DOMAIN qs)

\* field__contains: LIKE, which SQLite matches ignoring (ASCII) case
lookup_contains(text, pattern) ==
    IF backend = "sqlite" THEN IContains(text, pattern) ELSE Contains(text, pattern)

lookup_icontains(text, pattern) == IContains(text, pattern)

timedelta(hours) == hours * 3600

ExtractSecond(t) == t % 60

\* Surgery.objects.filter(doctors__<field>=value): one row per matching doctor
Surgery_filter_doctors(field, value) ==
    Rows([s \in DOMAIN surgeries |->
            Cardinality({d \in surgeries[s].doctors : doctors[d][field] = value})])

\* Patient.objects.filter(surgery__doctors__<field>=value): one row per
\* (surgery of the patient, matching doctor of the surgery)
Patient_filter_surgery_doctors(field, value) ==
    LET perSurgery == [s \in DOMAIN surgeries |->
            Cardinality({d \in surgeries[s].doctors : doctors[d][field] = value})]
    IN Rows([p \in DOMAIN patients |->
            SumSet(perSurgery, {s \in DOMAIN surgeries : surgeries[s].patient = p})])

\* Patient.objects.annotate(num_diagnoses=Count("diagnosis"))
num_diagnoses == [p \in DOMAIN patients |->
    Cardinality({g \in DOMAIN diagnoses : diagnoses[g].patient = p})]

aggregate_Min(values) == IF values = {} THEN None ELSE Some(MinSet(values))

aggregate_Max(values) == IF values = {} THEN None ELSE Some(MaxSet(values))

duration(s) == s.end_datetime - s.start_datetime

\* ------------------------------------------- reference queries (tests.py)

ref_deceased_patients ==
    Rows([p \in DOMAIN patients |-> IF patients[p].survived = FALSE THEN 1 ELSE 0])

ref_number_deceased_patients_unfiltered == count(objects_all(patients))

ref_number_deceased_patients == count(ref_deceased_patients)

ref_procedure_contains_surgery_case_insensitive ==
    Rows([s \in DOMAIN surgeries |->
            IF lookup_contains(surgeries[s].procedure, txt_surgery) THEN 1 ELSE 0])

ref_procedure_contains_surgery_case_sensitive ==
    Rows([s \in DOMAIN surgeries |->
            IF lookup_icontains(surgeries[s].procedure, txt_Surgery) THEN 1 ELSE 0])

ref_baileys_surgeries == Surgery_filter_doctors("last_name", "Bailey")

ref_cardiothoracic_surgeries_wrong_code == Surgery_filter_doctors("speciality", "CARD")

ref_cardiothoracic_surgeries == Surgery_filter_doctors("speciality", "CAR")

ref_shepherds_patients_not_distinct ==
    Patient_filter_surgery_doctors("last_name", "Shepherd")

ref_shepherds_patients ==
    distinct(Patient_filter_surgery_doctors("last_name", "Shepherd"))

ref_earliest_birth_year_of_doctors_max ==
    [birth_year__min |->
        aggregate_Max({doctors[d].birth_year : d \in DOMAIN doctors})]

ref_earliest_birth_year_of_doctors ==
    [birth_year__min |->
        aggregate_Min({doctors[d].birth_year : d \in DOMAIN doctors})]

ref_largest_number_of_diagnoses_min ==
    [num_diagnoses__max |->
        aggregate_Min({num_diagnoses[p] : p \in DOMAIN patients})]

ref_largest_number_of_diagnoses ==
    [num_diagnoses__max |->
        aggregate_Max({num_diagnoses[p] : p \in DOMAIN patients})]

ref_surgeries_longer_3hours_gte ==
    Rows([s \in DOMAIN surgeries |->
            IF duration(surgeries[s]) >= timedelta(3) THEN 1 ELSE 0])

ref_surgeries_longer_3hours ==
    Rows([s \in DOMAIN surgeries |->
            IF duration(surgeries[s]) > timedelta(3) THEN 1 ELSE 0])

\* ------------------------------------- the query functions (hospital.queries)

queries_deceased_patients ==
    Rows([p \in DOMAIN patients |-> IF ~patients[p].survived THEN 1 ELSE 0])

queries_number_deceased_patients ==
    Cardinality({p \in DOMAIN patients : ~patients[p].survived})

queries_procedure_contains_surgery_case_insensitive ==
    Rows([s \in DOMAIN surgeries |->
            IF lookup_icontains(surgeries[s].procedure, txt_surgery) THEN 1 ELSE 0])

queries_procedure_contains_surgery_case_sensitive ==
    Rows([s \in DOMAIN surgeries |->
            IF lookup_contains(surgeries[s].procedure, txt_Surgery) THEN 1 ELSE 0])

queries_baileys_surgeries == Surgery_filter_doctors("last_name", "Bailey")

queries_cardiothoracic_surgeries == Surgery_filter_doctors("speciality", "CAR")

queries_shepherds_patients ==
    distinct(Patient_filter_surgery_doctors("last_name", "Shepherd"))

queries_earliest_birth_year_of_doctors ==
    [birth_year__min |->
        aggregate_Min({doctors[d].birth_year : d \in DOMAIN doctors})]

queries_largest_number_of_diagnoses ==
    [num_diagnoses__max |->
        aggregate_Max({num_diagnoses[p] : p \in DOMAIN patients})]

queries_surgeries_longer_3hours ==
    Rows([s \in DOMAIN surgeries |->
            IF duration(surgeries[s]) > timedelta(3) THEN 1 ELSE 0])

\* ---------------------------------------------------------------- the views

\* The response of get_patients: the page rendered with all patients.
get_patients_response ==
    [status |-> 200, template |-> "hospital/index.html",
     context |-> [query |-> Some("SELECT FROM hospital_patient"),
                  rows |-> objects_all(patients)]]

\* Avg over the surgeries of ExtractSecond(F(a)) - ExtractSecond(F(b)), as
\* <<sum, number of rows>>; None over no row.
Avg_ExtractSecond_diff(a, b) ==
    IF surgeries = <<>> THEN None
    ELSE Some(<<SumSet([s \in DOMAIN surgeries |->
                    ExtractSecond(surgeries[s][a]) - ExtractSecond(surgeries[s][b])],
                    DOMAIN surgeries),
                Len(surgeries)>>)

\* The response of get_surgery_avg_time: F() of a name that is no field of
\* Surgery raises FieldError when the aggregate is built, whatever the rows.
get_surgery_avg_time_response ==
    IF {"start_endetime", "d_datetime"} \subseteq SurgeryFields
    THEN [status |-> 200, template |-> "hospital/index.html",
          context |-> [query |-> None,
                       rows |-> {Avg_ExtractSecond_diff("start_endetime", "d_datetime")}]]
    ELSE [status |-> 500, exception |-> "FieldError"]

urlpatterns ==
    [patients |-> "get_patients", average_surgery_time |-> "get_surgery_avg_time"]

\* ------------------------------------------------------------------ actions

NumRows == Len(doctors) + Len(patients) + Len(surgeries) + Len(diagnoses)

Loaded == [op |-> "loaddata", calls |-> 0, result |-> None, first |-> None]

\* Records a call of op: its result, the number of calls of op in a row
\* (counted to 2), and the result of the first call of that row of calls.
Call(op, result) ==
    last' = [op |-> op,
             calls |-> IF last.op = op THEN 2 ELSE 1,
             result |-> result,
             first |-> IF last.op = op THEN last.first ELSE result]

Init ==
    /\ backend \in Backends
    /\ doctors = <<>>
    /\ patients = <<>>
    /\ surgeries = <<>>
    /\ diagnoses = <<>>
    /\ last = Loaded

LoadDoctor(names, specialities, years) ==
    /\ NumRows < MaxRows
    /\ \E n \in names, sp \in specialities, y \in years :
          doctors' = Append(doctors,
                            [last_name |-> n, speciality |-> sp, birth_year |-> y])
    /\ last' = Loaded
    /\ UNCHANGED <<backend, patients, surgeries, diagnoses>>

LoadPatient(outcomes) ==
    /\ NumRows < MaxRows
    /\ \E sv \in outcomes : patients' = Append(patients, [survived |-> sv])
    /\ last' = Loaded
    /\ UNCHANGED <<backend, doctors, surgeries, diagnoses>>

LoadSurgery(procedures, times) ==
    /\ NumRows < MaxRows
    /\ \E pr \in procedures, t \in times, p \in DOMAIN patients,
          ds \in SUBSET (DOMAIN doctors) :
          surgeries' = Append(surgeries,
                              [procedure |-> pr, start_datetime |-> t[1],
                               end_datetime |-> t[2], patient |-> p, doctors |-> ds])
    /\ last' = Loaded
    /\ UNCHANGED <<backend, doctors, patients, diagnoses>>

LoadDiagnosis ==
    /\ NumRows < MaxRows
    /\ \E p \in DOMAIN patients : diagnoses' = Append(diagnoses, [patient |-> p])
    /\ last' = Loaded
    /\ UNCHANGED <<backend, doctors, patients, surgeries>>

\* A test: the reference query and the query function, and their comparison.
Test(name, expected, actual) ==
    /\ Call(name, [expected |-> expected, actual |-> actual,
                   passed |-> expected = actual])
    /\ UNCHANGED <<backend, doctors, patients, surgeries, diagnoses>>

test_deceased_patients ==
    Test("test_deceased_patients", ref_deceased_patients, queries_deceased_patients)

test_number_deceased_patients ==
    Test("test_number_deceased_patients",
         ref_number_deceased_patients, queries_number_deceased_patients)

test_procedure_contains_surgery_case_insensitive ==
    Test("test_procedure_contains_surgery_case_insensitive",
         ref_procedure_contains_surgery_case_insensitive,
         queries_procedure_contains_surgery_case_insensitive)

test_procedure_contains_surgery_case_sensitive ==
    Test("test_procedure_contains_surgery_case_sensitive",
         ref_procedure_contains_surgery_case_sensitive,
         queries_procedure_contains_surgery_case_sensitive)

test_baileys_surgeries ==
    Test("test_baileys_surgeries", ref_baileys_surgeries, queries_baileys_surgeries)

test_cardiothoracic_surgeries ==
    Test("test_cardiothoracic_surgeries",
         ref_cardiothoracic_surgeries, queries_cardiothoracic_surgeries)

test_shepherds_patients ==
    Test("test_shepherds_patients", ref_shepherds_patients, queries_shepherds_patients)

test_earliest_birth_year_of_doctors ==
    Test("test_earliest_birth_year_of_doctors",
         ref_earliest_birth_year_of_doctors, queries_earliest_birth_year_of_doctors)

test_largest_number_of_diagnoses ==
    Test("test_largest_number_of_diagnoses",
         ref_largest_number_of_diagnoses, queries_largest_number_of_diagnoses)

test_surgeries_longer_3hours ==
    Test("test_surgeries_longer_3hours",
         ref_surgeries_longer_3hours, queries_surgeries_longer_3hours)

\* get_patients, which a plausible slip makes a write: the rows are read,
\* then the last patient without surgery or diagnosis is deleted.
get_patients_deleting ==
    /\ Call("get_patients", get_patients_response)
    /\ patients' =
         IF /\ patients # <<>>
            /\ \A s \in DOMAIN surgeries : surgeries[s].patient # Len(patients)
            /\ \A g \in DOMAIN diagnoses : diagnoses[g].patient # Len(patients)
         THEN SubSeq(patients, 1, Len(patients) - 1)
         ELSE patients
    /\ UNCHANGED <<backend, doctors, surgeries, diagnoses>>

get_patients ==
    /\ Call("get_patients", get_patients_response)
    /\ UNCHANGED <<backend, doctors, patients, surgeries, diagnoses>>

get_surgery_avg_time ==
    /\ Call("get_surgery_avg_time", get_surgery_avg_time_response)
    /\ UNCHANGED <<backend, doctors, patients, surgeries, diagnoses>>

\* A GET request, dispatched by urlpatterns.
GET(path) ==
    CASE urlpatterns[path] = "get_patients" -> get_patients
      [] urlpatterns[path] = "get_surgery_avg_time" -> get_surgery_avg_time
\* ----------------------------------------------------------- specifications

\* Doctors, and the aggregate over their birth years.
NextDoctors ==
    \/ LoadDoctor(LastNames, Specialities, BirthYears)
    \/ test_earliest_birth_year_of_doctors

SpecDoctors == Init /\ [][NextDoctors]_vars

\* Patients and their diagnoses.
NextPatients ==
    \/ LoadPatient(BOOLEAN)
    \/ LoadDiagnosis
    \/ test_deceased_patients
    \/ test_number_deceased_patients
    \/ test_largest_number_of_diagnoses

SpecPatients == Init /\ [][NextPatients]_vars

\* Surgeries of every duration.
NextDurations ==
    \/ LoadPatient({TRUE})
    \/ LoadSurgery({txt_Surgery}, Times)
    \/ test_surgeries_longer_3hours

SpecDurations == Init /\ [][NextDurations]_vars

\* Surgeries of every procedure text.
NextProcedures ==
    \/ LoadPatient({TRUE})
    \/ LoadSurgery(Procedures, {<<0, 10800>>})
    \/ test_procedure_contains_surgery_case_insensitive
    \/ test_procedure_contains_surgery_case_sensitive

SpecProcedures == Init /\ [][NextProcedures]_vars

\* Surgeries, their patients and their doctors.
NextRelations ==
    \/ LoadDoctor(LastNames, Specialities, {1954})
    \/ LoadPatient({TRUE})
    \/ LoadSurgery({txt_Surgery}, {<<0, 10800>>})
    \/ test_baileys_surgeries
    \/ test_cardiothoracic_surgeries
    \/ test_shepherds_patients

SpecRelations == Init /\ [][NextRelations]_vars

\* Every table, every test and both views.
Next ==
    \/ LoadDoctor(LastNames, {"CAR"}, {1954})
    \/ LoadPatient(BOOLEAN)
    \/ LoadSurgery({txt_Surgery, txt_a_surgery}, {<<0, 10801>>})
    \/ LoadDiagnosis
    \/ test_deceased_patients
    \/ test_number_deceased_patients
    \/ test_procedure_contains_surgery_case_insensitive
    \/ test_procedure_contains_surgery_case_sensitive
    \/ test_baileys_surgeries
    \/ test_cardiothoracic_surgeries
    \/ test_shepherds_patients
    \/ test_earliest_birth_year_of_doctors
    \/ test_largest_number_of_diagnoses
    \/ test_surgeries_longer_3hours
    \/ GET("patients")
    \/ GET("average_surgery_time")

Spec == Init /\ [][Next]_vars

\* ------------------------------------------------------------------- claims

\* The queryset holding each record of S once.
Once(S) == [pk \in S |-> 1]

Views == {"get_patients", "get_surgery_avg_time"}

\* C1: surgeries_longer_3hours() returns exactly the surgeries whose
\* end_datetime - start_datetime is strictly greater than 3 hours (10800 s),
\* and so does the reference query of its test.
C1_Longer3Hours ==
    last.op = "test_surgeries_longer_3hours" =>
        LET longer == {s \in DOMAIN surgeries :
                surgeries[s].end_datetime - surgeries[s].start_datetime > 10800}
        IN /\ last.result.expected = Once(longer)
           /\ last.result.actual = Once(longer)

\* C1 witness: the query has run over a surgery of exactly 3 hours and one
\* of more than 3 hours.
C1_Witness ==
    /\ last.op = "test_surgeries_longer_3hours"
    /\ \E s \in DOMAIN surgeries :
          surgeries[s].end_datetime - surgeries[s].start_datetime = 10800
    /\ \E s \in DOMAIN surgeries :
          surgeries[s].end_datetime - surgeries[s].start_datetime = 10801

DiagnosesOf(p) == Cardinality({g \in DOMAIN diagnoses : diagnoses[g].patient = p})

IsLargestNumber(v) ==
    \E p \in DOMAIN patients :
        /\ v = Some(DiagnosesOf(p))
        /\ \A q \in DOMAIN patients : DiagnosesOf(q) <= DiagnosesOf(p)

\* C2 as stated: for every store content largest_number_of_diagnoses() is
\* the maximum over all patients of their number of diagnoses.
C2_Original ==
    last.op = "test_largest_number_of_diagnoses" =>
        /\ IsLargestNumber(last.result.expected.num_diagnoses__max)
        /\ IsLargestNumber(last.result.actual.num_diagnoses__max)

\* C2 amended: with at least one patient largest_number_of_diagnoses() is the
\* maximum over all patients (0 for a patient without diagnosis) of their
\* number of diagnoses; with no patient it is None.
C2_LargestNumber ==
    last.op = "test_largest_number_of_diagnoses" =>
        IF patients = <<>>
        THEN /\ last.result.expected.num_diagnoses__max = None
             /\ last.result.actual.num_diagnoses__max = None
        ELSE /\ IsLargestNumber(last.result.expected.num_diagnoses__max)
             /\ IsLargestNumber(last.result.actual.num_diagnoses__max)

\* C2 witness: the query has run over a patient with two diagnoses and a
\* patient with none.
C2_Witness ==
    /\ last.op = "test_largest_number_of_diagnoses"
    /\ \E p, q \in DOMAIN patients : DiagnosesOf(p) = 2 /\ DiagnosesOf(q) = 0

IsShepherd(s) == \E d \in surgeries[s].doctors : doctors[d].last_name = "Shepherd"

\* C3: shepherds_patients() holds exactly the patients with a surgery that
\* has a doctor named Shepherd, each exactly once.
C3_ShepherdsPatients ==
    last.op = "test_shepherds_patients" =>
        LET treated == {p \in DOMAIN patients :
                \E s \in DOMAIN surgeries : surgeries[s].patient = p /\ IsShepherd(s)}
        IN /\ last.result.expected = Once(treated)
           /\ last.result.actual = Once(treated)

\* C3 witness: the query has run over a patient with two surgeries by a
\* Shepherd, or with a surgery by two Shepherds.
C3_Witness ==
    /\ last.op = "test_shepherds_patients"
    /\ \/ \E s, t \in DOMAIN surgeries :
             /\ s # t
             /\ surgeries[s].patient = surgeries[t].patient
             /\ IsShepherd(s)
             /\ IsShepherd(t)
       \/ \E s \in DOMAIN surgeries : \E d, e \in surgeries[s].doctors :
             /\ d # e
             /\ doctors[d].last_name = "Shepherd"
             /\ doctors[e].last_name = "Shepherd"

Deceased == {p \in DOMAIN patients : patients[p].survived = FALSE}

\* C4: number_deceased_patients() is the number of patients whose survived is
\* false, and deceased_patients() has that many elements.
C4_NumberDeceased ==
    /\ last.op = "test_number_deceased_patients" =>
          /\ last.result.expected = Cardinality(Deceased)
          /\ last.result.actual = Cardinality(Deceased)
          /\ last.result.actual = count(queries_deceased_patients)
    /\ last.op = "test_deceased_patients" =>
          /\ count(last.result.expected) = Cardinality(Deceased)
          /\ count(last.result.actual) = Cardinality(Deceased)

\* C4 witness: the count has run over a deceased patient and a survivor.
C4_Witness ==
    /\ last.op = "test_number_deceased_patients"
    /\ Deceased # {}
    /\ Deceased # DOMAIN patients

IsEarliestYear(v) ==
    \E d \in DOMAIN doctors :
        /\ v = Some(doctors[d].birth_year)
        /\ \A e \in DOMAIN doctors : doctors[d].birth_year <= doctors[e].birth_year

\* C5: with at least one doctor earliest_birth_year_of_doctors() is the
\* birth_year of some doctor, and no doctor has a smaller one.
C5_EarliestBirthYear ==
    (last.op = "test_earliest_birth_year_of_doctors" /\ doctors # <<>>) =>
        /\ IsEarliestYear(last.result.expected.birth_year__min)
        /\ IsEarliestYear(last.result.actual.birth_year__min)

\* C5 witness: the query has run over doctors of different birth years, the
\* earliest not the first loaded.
C5_Witness ==
    /\ last.op = "test_earliest_birth_year_of_doctors"
    /\ \E d \in DOMAIN doctors : doctors[d].birth_year < doctors[1].birth_year

C7_ReadOnly == [][last'.op # "loaddata" => store' = store]_vars

\* C7 witness: a view has run over a store with patients and surgeries.
C7_Witness ==
    /\ last.op \in Views
    /\ patients # <<>>
    /\ surgeries # <<>>

\* C8: a GET request to either endpoint ends in a rendered page (status 200)
\* holding the query results, not in an error.
C8_RenderedPage == last.op \in Views => last.result.status = 200

ExactCase(pattern) ==
    Once({s \in DOMAIN surgeries : Contains(surgeries[s].procedure, pattern)})

AnyCase(pattern) ==
    Once({s \in DOMAIN surgeries : IContains(surgeries[s].procedure, pattern)})

\* C9: procedure_contains_surgery_case_insensitive() is the surgeries whose
\* procedure contains 'surgery' in any case, procedure_contains_surgery_
\* case_sensitive() is those whose procedure contains 'Surgery' in that exact
\* case, and each equals the reference query of its test.
C9_ContainsSurgery ==
    /\ last.op = "test_procedure_contains_surgery_case_insensitive" =>
          /\ last.result.actual = AnyCase(txt_surgery)
          /\ last.result.expected = last.result.actual
    /\ last.op = "test_procedure_contains_surgery_case_sensitive" =>
          /\ last.result.actual = ExactCase(txt_Surgery)
          /\ last.result.expected = last.result.actual

HasDoctor(s, field, value) == \E d \in surgeries[s].doctors : doctors[d][field] = value

\* C10: a surgery is in cardiothoracic_surgeries() iff one of its doctors has
\* speciality "CAR", and in baileys_surgeries() iff one of its doctors has
\* last name "Bailey"; a surgery with no doctor is in neither.
C10_SurgeriesByDoctor ==
    /\ last.op = "test_cardiothoracic_surgeries" =>
          \A s \in DOMAIN surgeries :
             /\ s \in DOMAIN last.result.expected <=> HasDoctor(s, "speciality", "CAR")
             /\ s \in DOMAIN last.result.actual <=> HasDoctor(s, "speciality", "CAR")
             /\ surgeries[s].doctors = {} => s \notin DOMAIN last.result.actual
    /\ last.op = "test_baileys_surgeries" =>
          \A s \in DOMAIN surgeries :
             /\ s \in DOMAIN last.result.expected <=> HasDoctor(s, "last_name", "Bailey")
             /\ s \in DOMAIN last.result.actual <=> HasDoctor(s, "last_name", "Bailey")
             /\ surgeries[s].doctors = {} => s \notin DOMAIN last.result.actual

\* C10 witness: the cardiothoracic query has run over a surgery with no
\* doctor and a surgery with a "CAR" doctor named Bailey.
C10_Witness ==
    /\ last.op = "test_cardiothoracic_surgeries"
    /\ \E s \in DOMAIN surgeries : surgeries[s].doctors = {}
    /\ \E s \in DOMAIN surgeries : \E d \in surgeries[s].doctors :
          doctors[d].speciality = "CAR" /\ doctors[d].last_name = "Bailey"

====
